---- MODULE Spec2Model ----
(***************************************************************************)
(* State-machine model of the two orchestration hooks of                   *)
(* ailey-agent-sdk-react: useCallSwap (hooks/useCallSwap.ts) and            *)
(* useAddLiquidity (hooks/useAddLiquidity.ts), together with the parts of   *)
(* useSwapQuote / usePoolData they consume.                                 *)
(*                                                                         *)
(* One behaviour follows one mounted hook instance: SpecSwap a useCallSwap, *)
(* SpecLiquidity a useAddLiquidity.  An                                     *)
(* action is one callback of the single-threaded runtime: a call of the     *)
(* hook's API, the continuation of an awaited chain read, the arrival of    *)
(* query data, a wallet answer or a receipt in the wagmi stores, or one      *)
(* render of the hook followed by the effects whose dependencies changed.   *)
(* A closure created by a render keeps the values of that render: an effect *)
(* reads the render's values, and the continuation after an await is a      *)
(* record holding them.                                                     *)
(***************************************************************************)
EXTENDS Integers, Sequences, FiniteSets, TLC

\* ---------------------------------------------------------------- bounds
MaxSessions == 2            \* calls of callSwap / callAddLiquidity that start a session

\* ------------------------------------------------------ program constants
SLIPPAGE_BPS == 50          \* Math.floor(SLIPPAGE_TO_TOLERANCE * 10000)
HUNDRED_PERCENT == 10000

\* Input domains: amountIn of callSwap (0 is a value the type admits), the
\* allowance a read can return (Undef: the read produced no data).
SwapAmounts == {0, 1, 200, 400}
Undef == -1
AllowanceValues == {Undef, 0, 1000}

\* Pool price tokenOut per tokenIn as a rational PriceNum / PriceDen.
PriceNum == 1
PriceDen == 1

VARIABLES
    agentAddress,   \* useAgentApi().address is defined
    now,            \* Date.now(), in milliseconds
    userAddress,    \* useAccount().address is defined
    step,           \* useState step
    error,          \* useState error ("null" for null)
    currentParams,  \* useState currentParams
    poolQ,          \* query cache of usePoolData for the token pair
    poolError,      \* useState error of usePoolData
    quoteResult,    \* useState quoteResult of useSwapQuote
    reads,          \* allowance reads awaited by a continuation
    approve,        \* useWriteContract() of the approval
    swap,           \* useWriteContract() of the swap
    balancesQ,      \* query cache of the balanceOf reads of useAddLiquidity
    approve0,       \* useWriteContract() of the token0 approval
    approve1,       \* useWriteContract() of the token1 approval
    addLiquidity,   \* useWriteContract() of callAddLiquidity
    nextSid,        \* identity of the next params object
    last,           \* the values the last render saw (the effects' previous deps)
    ev,             \* the callback that produced the state, with its argument
    hist            \* what happened in the current session (read by the properties only)

vars == <<agentAddress, now, userAddress, step, error, currentParams, poolQ,
          poolError, quoteResult, reads, approve, swap, balancesQ, approve0,
          approve1, addLiquidity, nextSid, last, ev, hist>>

\* The state only useCallSwap has, and the state only useAddLiquidity has.
swapVars == <<quoteResult, approve, swap>>
liquidityVars == <<balancesQ, approve0, approve1, addLiquidity>>

\* ------------------------------------------------------------ values
Ev(name, arg) == [name |-> name, arg |-> arg]
NoParams == [sid |-> 0, amountIn |-> 0]
NoQuote == [defined |-> FALSE, estimatedAmountOut |-> 0, amountOutMinimum |-> 0]
NoLiquidityParams == [sid |-> 0, amountA |-> 0, amountB |-> 0]
NoBalancesQ == [data |-> <<>>, fetching |-> FALSE]
IdleMutation == [status |-> "idle", message |-> "", receipt |-> "none",
                 sid |-> 0, amount |-> 0, amountOutMinimum |-> 0, spender |-> "", token |-> "",
                 deadline |-> 0]

IdleLiquidityMutation ==
    [status |-> "idle", message |-> "", receipt |-> "none", sid |-> 0, token |-> "",
     spender |-> "", amount0 |-> 0, amount1 |-> 0, amount0Min |-> 0, amount1Min |-> 0,
     deadline |-> 0]

\* BigInt(Math.floor(Date.now() / 1000) + 60 * 10), for a deadline of five
\* minutes and for the one of the hooks.
DEADLINE_MINUTES == 10
DeadlineOfFiveMinutes(t) == (t \div 1000) + 60 * 5
Deadline(t) == (t \div 1000) + 60 * DEADLINE_MINUTES

\* Messages of the errors a wallet or the RPC node can answer a submission with.
WalletErrors == {"User rejected the request.", "execution reverted"}

\* ------------------------------------------------ useSwapQuote / usePoolData
\* A quote whose minimum is rounded up instead of down.
QuoteRoundingUp(amountIn, num, den, slippageFactor) ==
    LET out == (amountIn * num) \div den
    IN  [defined |-> TRUE,
         estimatedAmountOut |-> out,
         amountOutMinimum |->
            (out * (HUNDRED_PERCENT - slippageFactor) + HUNDRED_PERCENT - 1) \div HUNDRED_PERCENT]

\* The try block of calculateQuote: price.quote(inputAmount) at the pool price
\* num / den, then the slippage floor.
Quote(amountIn, num, den, slippageFactor) ==
    LET out == (amountIn * num) \div den
    IN  [defined |-> TRUE,
         estimatedAmountOut |-> out,
         amountOutMinimum |-> (out * (HUNDRED_PERCENT - slippageFactor)) \div HUNDRED_PERCENT]

\* calculateQuote as useCallSwap has it: a pool at PriceNum / PriceDen and the
\* fixed tolerance.
CalculateQuote(amountIn) ==
    IF amountIn = 0 THEN NoQuote ELSE Quote(amountIn, PriceNum, PriceDen, SLIPPAGE_BPS)

\* The quote the calculateQuote effect publishes for the given params and cache.
QuoteFor(params, pq) ==
    IF params.sid = 0 \/ pq # "ready" THEN NoQuote ELSE CalculateQuote(params.amountIn)

\* usePoolData: isLoading and the error its effect stores.
IsLoading(params, pq) == params.sid # 0 /\ pq \in {"unfetched", "loading"}
PoolErrorFor(params, pq) == params.sid # 0 /\ pq = "notfound"

\* ------------------------------------------------------- wagmi stores
\* useWaitForTransactionReceipt({hash}).isSuccess of a write hook's data.
IsSuccess(m) == m.status = "success" /\ m.receipt = "success"

\* writeContract(): a new mutation replaces the hook's current one (its data
\* and error are reset), and the wallet is asked to sign.
WriteContract(sid, token, spender, amount, amountOutMinimum) ==
    [IdleMutation EXCEPT !.status = "pending", !.sid = sid, !.token = token,
                         !.spender = spender, !.amount = amount,
                         !.amountOutMinimum = amountOutMinimum]

\* The wallet signed and broadcast: data, the transaction hash, is defined and
\* the receipt query of that hash starts.
Signed(m) == [m EXCEPT !.status = "success", !.receipt = "pending"]

\* data of a write hook: the mutation whose hash it is, or undefined.
TxHash(m) == IF m.status = "success" THEN <<m.token, m.spender, m.sid>> ELSE <<>>

\* The submission failed: error is set.
Failed(m, message) == [m EXCEPT !.status = "error", !.message = message]

\* The receipt query of the hash ended (a reverted transaction ends it in error).
Receipt(m, ok) == [m EXCEPT !.receipt = IF ok THEN "success" ELSE "error"]

\* ------------------------------------------------------------ rendering
\* What the hook function reads in a render.
View ==
    [step |-> step, error |-> error, currentParams |-> currentParams,
     quoteResult |-> quoteResult, poolError |-> poolError, poolQ |-> poolQ,
     approve |-> approve, swap |-> swap, userAddress |-> userAddress,
     balancesQ |-> balancesQ, approve0 |-> approve0, approve1 |-> approve1,
     addLiquidity |-> addLiquidity]

\* No render is pending: callbacks other than a render run only then.
Quiescent == last = View

\* The pool object of a render (memoised on the query data and the addresses).
PoolOf(v) == v.currentParams.sid # 0 /\ v.poolQ \in {"ready", "moved"}

\* isPending as the hooks return it in a render. A write hook's isPending is
\* true from writeContract() until the wallet answers; a read's isLoading is
\* true while its first fetch is running.
IsPending(v) ==
    \/ IsLoading(v.currentParams, v.poolQ)
    \/ v.approve.status = "pending"
    \/ v.swap.status = "pending"
    \/ v.step = "checking-approval"

IsPendingLiquidity(v) ==
    \/ v.step = "checking-balances"
    \/ v.step = "checking-approvals"
    \/ v.approve0.status = "pending"
    \/ v.approve1.status = "pending"
    \/ v.addLiquidity.status = "pending"
    \/ IsLoading(v.currentParams, v.poolQ)
    \/ (v.balancesQ.fetching /\ v.balancesQ.data = <<>>)

\* ------------------------------------------------------------ useCallSwap
\* The state that the effects of a render and the continuations set.
Out(s, e, r, a, w) == [step |-> s, error |-> e, reads |-> r, approve |-> a, swap |-> w]
Now == Out(step, error, reads, approve, swap)

Commit(o) ==
    /\ step' = o.step
    /\ error' = o.error
    /\ reads' = o.reads
    /\ approve' = o.approve
    /\ swap' = o.swap

\* History of the current session (the params object in currentParams): what
\* its allowance read returned, whether its swap was written while the approve
\* hook held a confirmed approval of the same session, and whether step has
\* been approving since its callSwap.
NoHist == [read |-> "none", swapped |-> "no", sawApproving |-> FALSE]

Record(o, readSid, low) ==
    LET wrote == o.swap # swap /\ o.swap.status = "pending" /\ o.swap.sid = currentParams.sid
    IN  hist' = [hist EXCEPT
            !.read = IF readSid = currentParams.sid /\ readSid # 0
                     THEN (IF low THEN "low" ELSE "ok") ELSE @,
            !.sawApproving = @ \/ o.step = "approving",
            !.swapped = IF wrote
                        THEN (IF approve.sid = o.swap.sid /\ IsSuccess(approve)
                              THEN "after" ELSE "before")
                        ELSE @]

\* The closure of a render: currentParams, amountOutMinimum and userAddress.
Closure(v) ==
    [sid |-> v.currentParams.sid, amountIn |-> v.currentParams.amountIn,
     amountOutMinimum |-> v.quoteResult.amountOutMinimum, user |-> v.userAddress]

\* executeSwap, with the values c its closure captured.
ExecuteSwap(c, o) ==
    IF ~agentAddress \/ ~c.user \/ c.sid = 0 \/ c.amountOutMinimum = 0
    THEN [o EXCEPT !.error = "Failed to execute swap due to missing parameters.",
                   !.step = "error"]
    ELSE [o EXCEPT !.step = "swapping",
                   !.swap = [WriteContract(c.sid, "tokenIn", "", c.amountIn, c.amountOutMinimum)
                                EXCEPT !.deadline = Deadline(now)]]

\* processSwap up to its await, in the render that saw v.
ProcessSwap(v, o) ==
    IF v.step = "quoting" /\ ~IsLoading(v.currentParams, v.poolQ)
    THEN IF v.poolError
         THEN [o EXCEPT !.error = "Pool not found", !.step = "error"]
         ELSE IF v.quoteResult.amountOutMinimum # 0 /\ v.currentParams.sid # 0
              THEN IF ~agentAddress
                   THEN [o EXCEPT !.error = "Agent contract address is not available.",
                                  !.step = "error"]
                   ELSE [o EXCEPT !.step = "checking-approval",
                                  !.reads = @ \cup {Closure(v)}]
              ELSE o
    ELSE o

\* processSwap after its await: the allowance decides.
AfterAllowance(c, data, o) ==
    LET allowance == IF data = Undef THEN 0 ELSE data
    IN  IF allowance < c.amountIn
        THEN [o EXCEPT !.step = "approving",
                       !.approve = WriteContract(c.sid, "tokenIn", "agent", c.amountIn, 0)]
        ELSE ExecuteSwap(c, o)

\* Approval completed -> execute swap.
ApprovalCompleted(v, o) ==
    IF IsSuccess(v.approve) /\ v.step = "approving" THEN ExecuteSwap(Closure(v), o) ELSE o

\* Swap completed -> mark as complete.
SwapCompleted(v, o) ==
    IF IsSuccess(v.swap) THEN [o EXCEPT !.step = "complete"] ELSE o

\* Handle transaction errors.
TxError(v, o) ==
    LET txError == IF v.approve.message # "" THEN v.approve.message ELSE v.swap.message
    IN  IF txError # ""
        THEN [o EXCEPT !.error = IF txError = "User rejected the request."
                                 THEN "Transaction was rejected." ELSE txError,
                       !.step = "error"]
        ELSE o

\* Dependency arrays of the effects, compared between two renders.
QuoteDeps(v) == <<PoolOf(v), v.currentParams.amountIn>>
ExecuteSwapDeps(v) == <<v.userAddress, v.currentParams, v.quoteResult.amountOutMinimum>>
ProcessSwapDeps(v) ==
    <<v.step, IsLoading(v.currentParams, v.poolQ), v.poolError,
      v.quoteResult.amountOutMinimum, v.currentParams, ExecuteSwapDeps(v)>>
ApprovalDeps(v) == <<IsSuccess(v.approve), v.step, ExecuteSwapDeps(v)>>
SwapDeps(v) == <<IsSuccess(v.swap)>>
TxErrorDeps(v) == <<v.approve.message, v.swap.message>>

\* One render of useCallSwap and the effects whose dependencies changed, in
\* the order of the hook calls.
RenderSwap ==
    /\ ~Quiescent
    /\ ev' = Ev("render", 0)
    /\ LET v == View
           o3 == IF ProcessSwapDeps(v) # ProcessSwapDeps(last) THEN ProcessSwap(v, Now) ELSE Now
           o4 == IF ApprovalDeps(v) # ApprovalDeps(last) THEN ApprovalCompleted(v, o3) ELSE o3
           o5 == IF SwapDeps(v) # SwapDeps(last) THEN SwapCompleted(v, o4) ELSE o4
           o6 == IF TxErrorDeps(v) # TxErrorDeps(last) THEN TxError(v, o5) ELSE o5
       IN  /\ last' = v
           /\ poolQ' = IF IsLoading(currentParams, poolQ) THEN "loading" ELSE poolQ
           /\ poolError' = PoolErrorFor(currentParams, poolQ)
           /\ quoteResult' = IF QuoteDeps(v) # QuoteDeps(last)
                             THEN QuoteFor(currentParams, poolQ) ELSE quoteResult
           /\ Commit(o6)
           /\ Record(o6, 0, FALSE)
    /\ UNCHANGED liquidityVars
    /\ UNCHANGED <<agentAddress, now, userAddress, currentParams, nextSid>>

\* The queries of usePoolData are keyed by the token addresses and the fee:
\* for a pair it has not read yet they hold no data and are fetched anew.
PoolQueryFor(otherPair) == IF otherPair THEN "unfetched" ELSE poolQ

\* A callSwap that stores the params before it looks at the addresses.
CallSwapStoringFirst(amountIn, otherPair) ==
    /\ Quiescent
    /\ ev' = Ev("callSwap", amountIn)
    /\ nextSid <= MaxSessions
    /\ currentParams' = [sid |-> nextSid, amountIn |-> amountIn]
    /\ poolQ' = PoolQueryFor(otherPair)
    /\ nextSid' = nextSid + 1
    /\ hist' = NoHist
    /\ IF ~agentAddress \/ ~userAddress
       THEN error' = "Please connect your wallet" /\ step' = "error"
       ELSE error' = "null" /\ step' = "quoting"
    /\ UNCHANGED liquidityVars
    /\ UNCHANGED <<agentAddress, now, userAddress, poolError, quoteResult, reads,
                   approve, swap, last>>

\* callSwap(params).
\* The session's tokens are those of the session before it, or (otherPair)
\* a pair that usePoolData has not read yet.
CallSwap(amountIn, otherPair) ==
    /\ Quiescent
    /\ ev' = Ev("callSwap", amountIn)
    /\ IF ~agentAddress \/ ~userAddress
       THEN /\ error' = "Please connect your wallet"
            /\ step' = "error"
            /\ UNCHANGED <<currentParams, poolQ, nextSid, hist>>
       ELSE /\ nextSid <= MaxSessions
            /\ currentParams' = [sid |-> nextSid, amountIn |-> amountIn]
            /\ poolQ' = PoolQueryFor(otherPair)
            /\ error' = "null"
            /\ step' = "quoting"
            /\ nextSid' = nextSid + 1
            /\ hist' = NoHist
    /\ UNCHANGED liquidityVars
    /\ UNCHANGED <<agentAddress, now, userAddress, poolError, quoteResult, reads,
                   approve, swap, last>>

\* resetSwap().
ResetSwap ==
    /\ Quiescent
    /\ ev' = Ev("resetSwap", 0)
    /\ step' = "idle"
    /\ error' = "null"
    /\ currentParams' = NoParams
    /\ UNCHANGED liquidityVars
    /\ UNCHANGED <<agentAddress, now, userAddress, poolQ, poolError, quoteResult, reads,
                   approve, swap, nextSid, last, hist>>

\* The reads of usePoolData end: the pool exists ("ready"), the factory returned
\* the zero address ("notfound"), or a read failed and left no data ("failed").
PoolOutcomes == {"ready", "notfound", "failed"}

PoolLoaded(outcome) ==
    /\ Quiescent
    /\ poolQ = "loading"
    /\ ev' = Ev("poolLoaded", 0)
    /\ poolQ' = outcome
    /\ UNCHANGED <<swapVars, liquidityVars>>
    /\ UNCHANGED <<agentAddress, now, userAddress, step, error, currentParams, poolError,
                   reads, nextSid, last, hist>>

\* refetchAllowance() resolves and processSwap continues.
AllowanceResult(c, data) ==
    /\ Quiescent
    /\ c \in reads
    /\ ev' = Ev("allowance", data)
    /\ LET o == AfterAllowance(c, data, [Now EXCEPT !.reads = @ \ {c}])
           low == (IF data = Undef THEN 0 ELSE data) < c.amountIn
       IN  /\ Commit(o)
           /\ Record(o, c.sid, low)
    /\ UNCHANGED liquidityVars
    /\ UNCHANGED <<agentAddress, now, userAddress, currentParams, poolQ, poolError,
                   quoteResult, nextSid, last>>

\* The wallet signs and broadcasts the approval: approveTxHash is set.
ApproveSigned ==
    /\ Quiescent
    /\ approve.status = "pending"
    /\ ev' = Ev("approveSigned", 0)
    /\ approve' = Signed(approve)
    /\ UNCHANGED liquidityVars
    /\ UNCHANGED <<agentAddress, now, userAddress, step, error, currentParams, poolQ,
                   poolError, quoteResult, reads, swap, nextSid, last, hist>>

\* The approval submission fails (rejected in the wallet, or otherwise).
ApproveFailed(message) ==
    /\ Quiescent
    /\ approve.status = "pending"
    /\ ev' = Ev("approveFailed", 0)
    /\ approve' = Failed(approve, message)
    /\ UNCHANGED liquidityVars
    /\ UNCHANGED <<agentAddress, now, userAddress, step, error, currentParams, poolQ,
                   poolError, quoteResult, reads, swap, nextSid, last, hist>>

\* useWaitForTransactionReceipt({hash: approveTxHash}) ends.
ApproveReceipt(ok) ==
    /\ Quiescent
    /\ approve.status = "success" /\ approve.receipt = "pending"
    /\ ev' = Ev("approveReceipt", 0)
    /\ approve' = Receipt(approve, ok)
    /\ UNCHANGED liquidityVars
    /\ UNCHANGED <<agentAddress, now, userAddress, step, error, currentParams, poolQ,
                   poolError, quoteResult, reads, swap, nextSid, last, hist>>

\* The wallet signs and broadcasts the swap: swapTxHash is set.
SwapSigned ==
    /\ Quiescent
    /\ swap.status = "pending"
    /\ ev' = Ev("swapSigned", 0)
    /\ swap' = Signed(swap)
    /\ UNCHANGED liquidityVars
    /\ UNCHANGED <<agentAddress, now, userAddress, step, error, currentParams, poolQ,
                   poolError, quoteResult, reads, approve, nextSid, last, hist>>

\* The swap submission fails.
SwapFailed(message) ==
    /\ Quiescent
    /\ swap.status = "pending"
    /\ ev' = Ev("swapFailed", 0)
    /\ swap' = Failed(swap, message)
    /\ UNCHANGED liquidityVars
    /\ UNCHANGED <<agentAddress, now, userAddress, step, error, currentParams, poolQ,
                   poolError, quoteResult, reads, approve, nextSid, last, hist>>

\* useWaitForTransactionReceipt({hash: swapTxHash}) ends.
SwapReceipt(ok) ==
    /\ Quiescent
    /\ swap.status = "success" /\ swap.receipt = "pending"
    /\ ev' = Ev("swapReceipt", 0)
    /\ swap' = Receipt(swap, ok)
    /\ UNCHANGED liquidityVars
    /\ UNCHANGED <<agentAddress, now, userAddress, step, error, currentParams, poolQ,
                   poolError, quoteResult, reads, approve, nextSid, last, hist>>

\* The wallet connects or disconnects: useAccount().address changes.
AccountChanged ==
    /\ Quiescent
    /\ ev' = Ev("accountChanged", 0)
    /\ userAddress' = ~userAddress
    /\ UNCHANGED <<swapVars, liquidityVars>>
    /\ UNCHANGED <<agentAddress, now, step, error, currentParams, poolQ, poolError,
                   reads, nextSid, last, hist>>

InitSwap ==
    /\ agentAddress \in BOOLEAN
    /\ now = 0
    /\ userAddress \in BOOLEAN
    /\ step = "idle"
    /\ error = "null"
    /\ currentParams = NoParams
    /\ poolQ = "unfetched"
    /\ poolError = FALSE
    /\ quoteResult = NoQuote
    /\ reads = {}
    /\ approve = IdleMutation
    /\ swap = IdleMutation
    /\ balancesQ = NoBalancesQ
    /\ approve0 = IdleMutation
    /\ approve1 = IdleMutation
    /\ addLiquidity = IdleLiquidityMutation
    /\ nextSid = 1
    /\ last = View
    /\ hist = NoHist
    /\ ev = Ev("mount", 0)

NextSwap ==
    \/ RenderSwap
    \/ \E a \in SwapAmounts, otherPair \in BOOLEAN : CallSwap(a, otherPair)
    \/ ResetSwap
    \/ \E outcome \in PoolOutcomes : PoolLoaded(outcome)
    \/ \E c \in reads, d \in AllowanceValues : AllowanceResult(c, d)
    \/ ApproveSigned
    \/ \E m \in WalletErrors : ApproveFailed(m)
    \/ \E ok \in BOOLEAN : ApproveReceipt(ok)
    \/ SwapSigned
    \/ \E m \in WalletErrors : SwapFailed(m)
    \/ \E ok \in BOOLEAN : SwapReceipt(ok)
    \/ AccountChanged

SpecSwap == InitSwap /\ [][NextSwap]_vars
\* ------------------------------------------------- useSwapQuote on its own
\* Inputs of a mounted useSwapQuote: amountIn, the pool price as a rational,
\* and slippageTolerance in units of 10^-5 (500 is 0.005).
MaxAmountIn == 12
QuotePrices == {<<1, 1>>, <<3, 2>>, <<1, 3>>}
Tolerances == {0, 500, 505, 1000}

\* Math.floor(slippageTolerance * 10000).
SlippageFactor(tolerance) == tolerance \div 10

\* One run of the calculateQuote effect: pool tells whether the pool object
\* and the two tokens are there.
CalculateQuoteEffect(pool, amountIn, price, tolerance) ==
    /\ ev' = Ev("calculateQuote",
                [pool |-> pool, amountIn |-> amountIn, price |-> price, tolerance |-> tolerance])
    /\ quoteResult' = IF ~pool \/ amountIn = 0
                      THEN NoQuote
                      ELSE Quote(amountIn, price[1], price[2], SlippageFactor(tolerance))
    /\ UNCHANGED <<approve, swap>>
    /\ UNCHANGED liquidityVars
    /\ UNCHANGED <<agentAddress, now, userAddress, step, error, currentParams, poolQ,
                   poolError, reads, nextSid, last, hist>>

NextQuote ==
    \E pool \in BOOLEAN, amountIn \in 0..MaxAmountIn, price \in QuotePrices,
       tolerance \in Tolerances : CalculateQuoteEffect(pool, amountIn, price, tolerance)

SpecQuote == InitSwap /\ [][NextQuote]_vars
\* ------------------------------------------------------------ useAddLiquidity
\* Inputs of callAddLiquidity: whether both token addresses are given, and the
\* amount strings.  n >= 0 stands for the decimal string of n whole tokens, NaN
\* for a string parseFloat cannot read ("abc"), OneAbc for "1abc".
NaN == -1
OneAbc == -2
LiquidityInputs ==
    {[tokens |-> FALSE, amountA |-> 1, amountB |-> 1],
     [tokens |-> TRUE, amountA |-> OneAbc, amountB |-> 1],
     [tokens |-> TRUE, amountA |-> 0, amountB |-> 1],
     [tokens |-> TRUE, amountA |-> 1, amountB |-> NaN],
     [tokens |-> TRUE, amountA |-> 1, amountB |-> 1],
     [tokens |-> TRUE, amountA |-> 2, amountB |-> 2]}

\* parseFloat(amount): the number a leading decimal prefix denotes, else NaN.
ParseFloat(amount) == IF amount = OneAbc THEN 1 ELSE amount

\* parseUnits(amount, 18) of a decimal string (WEI stands for 10^18); it throws
\* on any other string.
WEI == 100000
ParseUnits(amount) == amount * WEI
ParseUnitsThrows(amount) == amount \in {NaN, OneAbc}

\* What the balanceOf pair can answer (Undef: the read failed, result is
\* undefined), and what an allowance read can.
BalanceResults == {<<Undef, Undef>>, <<0, ParseUnits(1)>>, <<ParseUnits(1), ParseUnits(1)>>}
LiquidityAllowances == {Undef, 0, ParseUnits(2)}

Min(a, b) == IF a < b THEN a ELSE b

\* balances of a render: the cache entry of the connected account.
Balances(v) == IF v.userAddress THEN v.balancesQ.data ELSE <<>>

\* query.enabled of the balances read.
BalancesEnabled(v) ==
    v.userAddress /\ v.currentParams.sid # 0 /\ v.step = "checking-balances"

\* calculatedAmounts: the amounts Position.fromAmounts takes of the two
\* desired ones, for the pool of the render.
NoAmounts == [defined |-> FALSE, amount0 |-> 0, amount1 |-> 0]

\* Position.fromAmounts for the range around the current tick: at price 1
\* (pool "ready") the position takes the same amount of both tokens, at price
\* 2 (pool "moved": a refresh read another slot0) two token1 for each token0;
\* neither amount exceeds the desired one.
FromAmounts(pq, amount0Desired, amount1Desired) ==
    IF pq = "moved"
    THEN LET a == Min(amount0Desired, amount1Desired \div 2)
         IN  [defined |-> TRUE, amount0 |-> a, amount1 |-> 2 * a]
    ELSE LET a == Min(amount0Desired, amount1Desired)
         IN  [defined |-> TRUE, amount0 |-> a, amount1 |-> a]
CalculatedAmounts(v) ==
    IF /\ PoolOf(v)
       /\ ~ParseUnitsThrows(v.currentParams.amountA)
       /\ ~ParseUnitsThrows(v.currentParams.amountB)
    THEN FromAmounts(v.poolQ, ParseUnits(v.currentParams.amountA),
                     ParseUnits(v.currentParams.amountB))
    ELSE NoAmounts

\* writeAddLiquidity(): amounts and their minimums.
WriteAddLiquidity(sid, amount0, amount1) ==
    [IdleLiquidityMutation EXCEPT
        !.status = "pending", !.sid = sid, !.token = "agent",
        !.amount0 = amount0, !.amount1 = amount1,
        !.amount0Min = (amount0 * 1000) \div 1005,
        !.amount1Min = (amount1 * 1000) \div 1005,
        !.deadline = Deadline(now)]

\* The state that the effects of a render and the continuations set.
LiquidityNow ==
    [step |-> step, error |-> error, currentParams |-> currentParams, reads |-> reads,
     approve0 |-> approve0, approve1 |-> approve1, addLiquidity |-> addLiquidity,
     userAddress |-> userAddress]

LiquidityCommit(o) ==
    /\ step' = o.step
    /\ error' = o.error
    /\ currentParams' = o.currentParams
    /\ reads' = o.reads
    /\ approve0' = o.approve0
    /\ approve1' = o.approve1
    /\ addLiquidity' = o.addLiquidity
    /\ userAddress' = o.userAddress

\* The closure of a render, awaiting the reads of kind "both" (allowance0 and
\* allowance1 in processAddLiquidity) or "token1" (checkAndApproveToken1).
LiquidityClosure(v, kind) ==
    [kind |-> kind, sid |-> v.currentParams.sid, amounts |-> CalculatedAmounts(v),
     user |-> v.userAddress]

\* Verify balances and check if user has sufficient tokens.
BalanceEffect(v, o) ==
    LET b == Balances(v)
    IN  IF b # <<>> /\ v.currentParams.sid # 0 /\ b[1] # Undef /\ b[2] # Undef
        THEN IF b[1] < ParseUnits(ParseFloat(v.currentParams.amountA))
                  \/ b[2] < ParseUnits(ParseFloat(v.currentParams.amountB))
             THEN [o EXCEPT !.error = "Insufficient balance", !.step = "error"]
             ELSE [o EXCEPT !.step = "checking-approvals"]
        ELSE o

\* executeAddLiquidity, with the values c its closure captured.
ExecuteAddLiquidity(c, o) ==
    IF ~agentAddress \/ ~c.user \/ ~c.amounts.defined
    THEN [o EXCEPT !.error = IF ~agentAddress
                             THEN "Missing required parameters: agent address"
                             ELSE IF ~c.amounts.defined
                                  THEN "Missing required parameters: pool, calculated amounts"
                                  ELSE "Missing required parameters: ",
                   !.step = "error"]
    ELSE [o EXCEPT !.step = "adding-liquidity",
                   !.addLiquidity = WriteAddLiquidity(c.sid, c.amounts.amount0, c.amounts.amount1)]

\* checkAndApproveToken1 up to its await.
CheckAndApproveToken1(c, o) ==
    IF ~agentAddress \/ ~c.amounts.defined
    THEN o
    ELSE [o EXCEPT !.reads = @ \cup {[c EXCEPT !.kind = "token1"]}]

\* checkAndApproveToken1 after its await.
AfterAllowance1(c, data1, o) ==
    LET allowance1 == IF data1 = Undef THEN 0 ELSE data1
    IN  IF allowance1 < c.amounts.amount1
        THEN [o EXCEPT !.step = "approving-token1",
                       !.approve1 = WriteContract(c.sid, "token1", "agent", c.amounts.amount1, 0)]
        ELSE ExecuteAddLiquidity(c, o)

\* processAddLiquidity up to its await, in the render that saw v.
ProcessAddLiquidity(v, o) ==
    IF /\ v.step = "checking-approvals" /\ agentAddress
       /\ ~IsLoading(v.currentParams, v.poolQ)
       /\ PoolOf(v) /\ CalculatedAmounts(v).defined
    THEN [o EXCEPT !.reads = @ \cup {LiquidityClosure(v, "both")}]
    ELSE o

\* A processAddLiquidity that looks at token1 first.
AfterAllowancesToken1First(c, data0, data1, o) ==
    LET allowance0 == IF data0 = Undef THEN 0 ELSE data0
        allowance1 == IF data1 = Undef THEN 0 ELSE data1
    IN  IF allowance1 < c.amounts.amount1
        THEN CheckAndApproveToken1(c, o)
        ELSE IF allowance0 < c.amounts.amount0
             THEN [o EXCEPT !.step = "approving-token0",
                            !.approve0 = WriteContract(c.sid, "token0", "agent", c.amounts.amount0, 0)]
             ELSE ExecuteAddLiquidity(c, o)

\* processAddLiquidity after its await: the two allowances decide.
AfterAllowances(c, data0, data1, o) ==
    LET allowance0 == IF data0 = Undef THEN 0 ELSE data0
        allowance1 == IF data1 = Undef THEN 0 ELSE data1
    IN  IF allowance0 < c.amounts.amount0
        THEN [o EXCEPT !.step = "approving-token0",
                       !.approve0 = WriteContract(c.sid, "token0", "agent", c.amounts.amount0, 0)]
        ELSE IF allowance1 < c.amounts.amount1
             THEN CheckAndApproveToken1(c, o)
             ELSE ExecuteAddLiquidity(c, o)

\* Handle Token0 approval completion.
Approval0Completed(v, o) ==
    IF IsSuccess(v.approve0) /\ v.step = "approving-token0"
    THEN CheckAndApproveToken1(LiquidityClosure(v, "token1"), o)
    ELSE o

\* Handle Token1 approval completion.
Approval1Completed(v, o) ==
    IF IsSuccess(v.approve1) /\ v.step = "approving-token1"
    THEN ExecuteAddLiquidity(LiquidityClosure(v, "token1"), o)
    ELSE o

\* Handle liquidity addition success.
LiquidityAdded(v, o) ==
    IF IsSuccess(v.addLiquidity) /\ TxHash(v.addLiquidity) # <<>>
    THEN [o EXCEPT !.step = "complete"]
    ELSE o

\* resetAddLiquidity().
ResetState(o) ==
    [o EXCEPT !.step = "idle", !.error = "null", !.currentParams = NoLiquidityParams]

\* disconnectOnError, with the step and error v its closure captured;
\* disconnect() empties useAccount().address.
DisconnectOnError(v, o) ==
    IF v.step = "error" /\ v.error = "execution reverted"
    THEN ResetState([o EXCEPT !.userAddress = FALSE])
    ELSE o

\* An error effect that disconnects on any transaction error.
UnifiedErrorDisconnectingOnAny(v, o) ==
    IF v.poolError
    THEN [o EXCEPT !.error = "Failed to query pool: Pool not found", !.step = "error"]
    ELSE LET txError == IF v.approve0.message # "" THEN v.approve0.message
                        ELSE IF v.approve1.message # "" THEN v.approve1.message
                        ELSE v.addLiquidity.message
             o1 == [o EXCEPT !.error = IF txError = "User rejected the request."
                                       THEN "User rejected the transaction" ELSE txError,
                             !.step = "error"]
         IN  IF txError = "" THEN o
             ELSE IF v.step = "error" THEN ResetState([o1 EXCEPT !.userAddress = FALSE])
             ELSE o1

\* Unified error handling (pool errors + transaction errors).
UnifiedError(v, o) ==
    IF v.poolError
    THEN [o EXCEPT !.error = "Failed to query pool: Pool not found", !.step = "error"]
    ELSE LET txError == IF v.approve0.message # "" THEN v.approve0.message
                        ELSE IF v.approve1.message # "" THEN v.approve1.message
                        ELSE v.addLiquidity.message
             o1 == [o EXCEPT !.error = IF txError = "User rejected the request."
                                       THEN "User rejected the transaction" ELSE txError,
                             !.step = "error"]
         IN  IF txError = "" THEN o
             ELSE IF txError = "execution reverted" THEN DisconnectOnError(v, o1)
             ELSE o1

\* Dependency arrays of the effects, compared between two renders.
BalanceDeps(v) == <<Balances(v), v.currentParams>>
ExecuteAddLiquidityDeps(v) ==
    <<v.userAddress, IF PoolOf(v) THEN v.poolQ ELSE "undefined", CalculatedAmounts(v),
      v.currentParams>>
ProcessAddLiquidityDeps(v) ==
    <<v.step, IsLoading(v.currentParams, v.poolQ), ExecuteAddLiquidityDeps(v)>>
Approval0Deps(v) == <<IsSuccess(v.approve0), v.step, ExecuteAddLiquidityDeps(v)>>
Approval1Deps(v) == <<IsSuccess(v.approve1), v.step, ExecuteAddLiquidityDeps(v)>>
LiquidityAddedDeps(v) == <<IsSuccess(v.addLiquidity), TxHash(v.addLiquidity)>>
UnifiedErrorDeps(v) ==
    <<v.poolError, v.approve0.message, v.approve1.message, v.addLiquidity.message,
      v.step, v.error>>

\* One render of useAddLiquidity and the effects whose dependencies changed,
\* in the order of the hook calls.
RenderLiquidity ==
    /\ ~Quiescent
    /\ ev' = Ev("render", 0)
    /\ LET v == View
           o1 == IF BalanceDeps(v) # BalanceDeps(last) THEN BalanceEffect(v, LiquidityNow) ELSE LiquidityNow
           o2 == IF ProcessAddLiquidityDeps(v) # ProcessAddLiquidityDeps(last)
                 THEN ProcessAddLiquidity(v, o1) ELSE o1
           o3 == IF Approval0Deps(v) # Approval0Deps(last) THEN Approval0Completed(v, o2) ELSE o2
           o4 == IF Approval1Deps(v) # Approval1Deps(last) THEN Approval1Completed(v, o3) ELSE o3
           o5 == IF LiquidityAddedDeps(v) # LiquidityAddedDeps(last) THEN LiquidityAdded(v, o4) ELSE o4
           o6 == IF UnifiedErrorDeps(v) # UnifiedErrorDeps(last) THEN UnifiedError(v, o5) ELSE o5
       IN  /\ last' = v
           /\ poolQ' = IF IsLoading(currentParams, poolQ) THEN "loading" ELSE poolQ
           /\ poolError' = PoolErrorFor(currentParams, poolQ)
           /\ balancesQ' = IF BalancesEnabled(v) /\ ~BalancesEnabled(last)
                           THEN [balancesQ EXCEPT !.fetching = TRUE] ELSE balancesQ
           /\ LiquidityCommit(o6)
    /\ UNCHANGED swapVars
    /\ UNCHANGED <<agentAddress, now, nextSid, hist>>

\* callAddLiquidity(params).
CallAddLiquidity(p) ==
    /\ Quiescent
    /\ ev' = Ev("callAddLiquidity", p)
    /\ IF ~agentAddress \/ ~userAddress
       THEN /\ error' = "Please connect your wallet first"
            /\ step' = "error"
            /\ UNCHANGED <<currentParams, nextSid>>
       ELSE IF ~p.tokens
       THEN /\ error' = "Token addresses are not set"
            /\ step' = "error"
            /\ UNCHANGED <<currentParams, nextSid>>
       ELSE IF \/ ParseFloat(p.amountA) = NaN \/ ParseFloat(p.amountA) <= 0
               \/ ParseFloat(p.amountB) = NaN \/ ParseFloat(p.amountB) <= 0
       THEN /\ error' = "Please enter valid amounts"
            /\ step' = "error"
            /\ UNCHANGED <<currentParams, nextSid>>
       ELSE /\ nextSid <= MaxSessions
            /\ currentParams' = [sid |-> nextSid, amountA |-> p.amountA, amountB |-> p.amountB]
            /\ error' = "null"
            /\ step' = "checking-balances"
            /\ nextSid' = nextSid + 1
    /\ UNCHANGED <<swapVars, liquidityVars>>
    /\ UNCHANGED <<agentAddress, now, userAddress, poolQ, poolError, reads, last, hist>>

\* resetAddLiquidity().
ResetAddLiquidity ==
    /\ Quiescent
    /\ ev' = Ev("resetAddLiquidity", 0)
    /\ LiquidityCommit(ResetState(LiquidityNow))
    /\ UNCHANGED <<swapVars, balancesQ>>
    /\ UNCHANGED <<agentAddress, now, poolQ, poolError, nextSid, last, hist>>

\* disconnectOnError(), called by the application.
CallDisconnectOnError ==
    /\ Quiescent
    /\ ev' = Ev("disconnectOnError", 0)
    /\ LiquidityCommit(DisconnectOnError(View, LiquidityNow))
    /\ UNCHANGED <<swapVars, balancesQ>>
    /\ UNCHANGED <<agentAddress, now, poolQ, poolError, nextSid, last, hist>>

\* The balanceOf reads answer.
BalancesLoaded(result) ==
    /\ Quiescent
    /\ balancesQ.fetching
    /\ ev' = Ev("balancesLoaded", 0)
    /\ balancesQ' = [data |-> result, fetching |-> FALSE]
    /\ UNCHANGED <<swapVars, approve0, approve1, addLiquidity>>
    /\ UNCHANGED <<agentAddress, now, userAddress, step, error, currentParams, poolQ,
                   poolError, reads, nextSid, last, hist>>

\* refetchAllowance0() and refetchAllowance1() resolve and processAddLiquidity
\* continues.
AllowancesResult(c, data0, data1) ==
    /\ Quiescent
    /\ c \in reads /\ c.kind = "both"
    /\ ev' = Ev("allowances", [c |-> c, data0 |-> data0, data1 |-> data1])
    /\ LiquidityCommit(AfterAllowances(c, data0, data1, [LiquidityNow EXCEPT !.reads = @ \ {c}]))
    /\ UNCHANGED <<swapVars, balancesQ>>
    /\ UNCHANGED <<agentAddress, now, poolQ, poolError, nextSid, last, hist>>

\* refetchAllowance1() resolves and checkAndApproveToken1 continues.
Allowance1Result(c, data1) ==
    /\ Quiescent
    /\ c \in reads /\ c.kind = "token1"
    /\ ev' = Ev("allowance1", [c |-> c, data1 |-> data1])
    /\ LiquidityCommit(AfterAllowance1(c, data1, [LiquidityNow EXCEPT !.reads = @ \ {c}]))
    /\ UNCHANGED <<swapVars, balancesQ>>
    /\ UNCHANGED <<agentAddress, now, poolQ, poolError, nextSid, last, hist>>

\* The wallet answers a submission of the write hook w ("approve0", "approve1"
\* or "addLiquidity"): signed and broadcast, or failed with a message; then the
\* receipt query of its hash ends.
Hook(w) == IF w = "approve0" THEN approve0 ELSE IF w = "approve1" THEN approve1 ELSE addLiquidity

SetHook(w, m) ==
    /\ approve0' = IF w = "approve0" THEN m ELSE approve0
    /\ approve1' = IF w = "approve1" THEN m ELSE approve1
    /\ addLiquidity' = IF w = "addLiquidity" THEN m ELSE addLiquidity

LiquiditySigned(w) ==
    /\ Quiescent
    /\ Hook(w).status = "pending"
    /\ ev' = Ev("signed", w)
    /\ SetHook(w, Signed(Hook(w)))
    /\ UNCHANGED <<swapVars, balancesQ>>
    /\ UNCHANGED <<agentAddress, now, userAddress, step, error, currentParams, poolQ,
                   poolError, reads, nextSid, last, hist>>

LiquidityFailed(w, message) ==
    /\ Quiescent
    /\ Hook(w).status = "pending"
    /\ ev' = Ev("failed", w)
    /\ SetHook(w, Failed(Hook(w), message))
    /\ UNCHANGED <<swapVars, balancesQ>>
    /\ UNCHANGED <<agentAddress, now, userAddress, step, error, currentParams, poolQ,
                   poolError, reads, nextSid, last, hist>>

LiquidityReceipt(w, ok) ==
    /\ Quiescent
    /\ Hook(w).status = "success" /\ Hook(w).receipt = "pending"
    /\ ev' = Ev("receipt", w)
    /\ SetHook(w, Receipt(Hook(w), ok))
    /\ UNCHANGED <<swapVars, balancesQ>>
    /\ UNCHANGED <<agentAddress, now, userAddress, step, error, currentParams, poolQ,
                   poolError, reads, nextSid, last, hist>>

InitLiquidity ==
    /\ agentAddress \in BOOLEAN
    /\ now = 0
    /\ userAddress \in BOOLEAN
    /\ step = "idle"
    /\ error = "null"
    /\ currentParams = NoLiquidityParams
    /\ poolQ = "unfetched"
    /\ poolError = FALSE
    /\ quoteResult = NoQuote
    /\ reads = {}
    /\ approve = IdleMutation
    /\ swap = IdleMutation
    /\ balancesQ = NoBalancesQ
    /\ approve0 = IdleMutation
    /\ approve1 = IdleMutation
    /\ addLiquidity = IdleLiquidityMutation
    /\ nextSid = 1
    /\ last = View
    /\ hist = NoHist
    /\ ev = Ev("mount", 0)

WriteHooks == {"approve0", "approve1", "addLiquidity"}

\* The callbacks of a mounted useAddLiquidity.  The wallet is connected or not
\* from the start; during the behaviour it is disconnected only by the hook's
\* own disconnect().
NextLiquidity ==
    \/ RenderLiquidity
    \/ \E p \in LiquidityInputs : CallAddLiquidity(p)
    \/ ResetAddLiquidity
    \/ CallDisconnectOnError
    \/ \E outcome \in PoolOutcomes : PoolLoaded(outcome)
    \/ \E r \in BalanceResults : BalancesLoaded(r)
    \/ \E c \in reads, d0 \in LiquidityAllowances, d1 \in LiquidityAllowances : AllowancesResult(c, d0, d1)
    \/ \E c \in reads, d1 \in LiquidityAllowances : Allowance1Result(c, d1)
    \/ \E w \in WriteHooks : LiquiditySigned(w)
    \/ \E w \in WriteHooks, m \in WalletErrors : LiquidityFailed(w, m)
    \/ \E w \in WriteHooks, ok \in BOOLEAN : LiquidityReceipt(w, ok)

SpecLiquidity == InitLiquidity /\ [][NextLiquidity]_vars
\* --------------------------------------- token0 / token1 of useAddLiquidity
\* An address is the sequence of the character codes of its hex digits; the
\* digits used are '1', 'A', 'B', 'a', 'b'.
AddressLength == 2
MaxDesired == 2
HexChars == {49, 65, 66, 97, 98}
Addresses == [1..AddressLength -> HexChars]

\* String.prototype.toLowerCase.
ToLowerCase(s) == [i \in DOMAIN s |-> IF s[i] \in 65..90 THEN s[i] + 32 ELSE s[i]]

\* s < t of two strings: the first differing code unit decides.
RECURSIVE StringLess(_, _)
StringLess(s, t) ==
    IF t = <<>> THEN FALSE
    ELSE IF s = <<>> THEN TRUE
    ELSE IF Head(s) # Head(t) THEN Head(s) < Head(t)
    ELSE StringLess(Tail(s), Tail(t))

\* new Token(chainId, address, ...).address: the address in its checksum
\* casing, which the lower-cased address determines (upper case stands for it).
TokenAddress(s) == [i \in DOMAIN s |-> IF s[i] \in 97..122 THEN s[i] - 32 ELSE s[i]]

\* [token0, token1]: sort by address.
Token0Token1(tokenA, tokenB) ==
    IF StringLess(ToLowerCase(tokenA), ToLowerCase(tokenB))
    THEN <<tokenA, tokenB>> ELSE <<tokenB, tokenA>>

\* Desired amounts left in the order the caller gave them.
DesiredAmountsInCallerOrder(tokenAAddress, amountA, tokenBAddress, amountB) ==
    LET tokenA == TokenAddress(tokenAAddress)
        tokenB == TokenAddress(tokenBAddress)
        t == Token0Token1(tokenA, tokenB)
    IN  [token0 |-> t[1], token1 |-> t[2],
         amount0Desired |-> ParseUnits(amountA), amount1Desired |-> ParseUnits(amountB)]

\* calculatedAmounts up to Position.fromAmounts: map amounts to token0/token1
\* order.
DesiredAmounts(tokenAAddress, amountA, tokenBAddress, amountB) ==
    LET tokenA == TokenAddress(tokenAAddress)
        tokenB == TokenAddress(tokenBAddress)
        t == Token0Token1(tokenA, tokenB)
    IN  [token0 |-> t[1], token1 |-> t[2],
         amount0Desired |-> IF ToLowerCase(t[1]) = ToLowerCase(tokenA)
                            THEN ParseUnits(amountA) ELSE ParseUnits(amountB),
         amount1Desired |-> IF ToLowerCase(t[2]) = ToLowerCase(tokenA)
                            THEN ParseUnits(amountA) ELSE ParseUnits(amountB)]

\* The memos of the first render with the given params.
OrderTokens(tokenAAddress, amountA, tokenBAddress, amountB) ==
    /\ ev' = Ev("orderTokens",
                [tokenAAddress |-> tokenAAddress, amountA |-> amountA,
                 tokenBAddress |-> tokenBAddress, amountB |-> amountB,
                 result |-> DesiredAmounts(tokenAAddress, amountA, tokenBAddress, amountB)])
    /\ UNCHANGED <<swapVars, liquidityVars>>
    /\ UNCHANGED <<agentAddress, now, userAddress, step, error, currentParams, poolQ,
                   poolError, reads, nextSid, last, hist>>

NextOrder ==
    /\ ev.name = "mount"
    /\ \E x \in Addresses, y \in Addresses, p \in 1..MaxDesired, q \in 1..MaxDesired :
          OrderTokens(x, p, y, q)

SpecOrder == InitLiquidity /\ [][NextOrder]_vars

\* ------------------------------------------------- usePoolData on its own
\* The reads of usePoolData and the memos built from them.  poolQ holds the
\* params and the data of the three reads; a result of Undef is a call of the
\* multicall that failed.
Decimals == {Undef, 6, 18}
Symbols == {"", "SYM"}
Fees == {0, 3000}
Slot0Results == {"undefined", "consistent", "inconsistent"}
LiquidityResults == {Undef, 0, 5}

NoTokenData == [loaded |-> FALSE, aDecimals |-> Undef, aSymbol |-> "",
                bDecimals |-> Undef, bSymbol |-> ""]
TokenDataResults ==
    [loaded : {TRUE}, aDecimals : Decimals, aSymbol : Symbols,
     bDecimals : {Undef, 18}, bSymbol : Symbols]
NoPoolData == [loaded |-> FALSE, slot0 |-> "undefined", liquidity |-> Undef]
PoolDataResults == [loaded : {TRUE}, slot0 : Slot0Results, liquidity : LiquidityResults]
NoPoolQueries ==
    [tokens |-> FALSE, fee |-> 0, tokenData |-> NoTokenData,
     poolAddress |-> "undefined", poolData |-> NoPoolData]

NoTokens == [defined |-> FALSE, aDecimals |-> Undef, aSymbol |-> "",
             bDecimals |-> Undef, bSymbol |-> ""]

\* A token memo that falls back to 18 decimals when the lookup failed.
TokensDefaultingDecimals(q) ==
    IF ~q.tokenData.loaded \/ ~q.tokens THEN NoTokens
    ELSE [defined |-> TRUE,
          aDecimals |-> IF q.tokenData.aDecimals = Undef THEN 18 ELSE q.tokenData.aDecimals,
          aSymbol |-> IF q.tokenData.aSymbol = "" THEN "TOKEN_A" ELSE q.tokenData.aSymbol,
          bDecimals |-> IF q.tokenData.bDecimals = Undef THEN 18 ELSE q.tokenData.bDecimals,
          bSymbol |-> IF q.tokenData.bSymbol = "" THEN "TOKEN_B" ELSE q.tokenData.bSymbol]

\* [tokenA, tokenB]: the Token objects, or undefined.
Tokens(q) ==
    IF ~q.tokenData.loaded THEN NoTokens
    ELSE IF \/ q.tokenData.aDecimals = Undef
            \/ q.tokenData.bDecimals = Undef
            \/ ~q.tokens
    THEN NoTokens
    ELSE [defined |-> TRUE,
          aDecimals |-> q.tokenData.aDecimals,
          aSymbol |-> IF q.tokenData.aSymbol = "" THEN "TOKEN_A" ELSE q.tokenData.aSymbol,
          bDecimals |-> q.tokenData.bDecimals,
          bSymbol |-> IF q.tokenData.bSymbol = "" THEN "TOKEN_B" ELSE q.tokenData.bSymbol]

\* enabled of the getPool read and of the slot0/liquidity read.
PoolAddressEnabled(q) == Tokens(q).defined /\ q.fee # 0
PoolStateEnabled(q) == q.poolAddress \notin {"undefined", "zero"}

\* [pool, sqrtPriceX96, tick, liquidity]: new Pool(...) throws for a slot0
\* whose tick does not belong to its price.
NoPool == [defined |-> FALSE, tokens |-> NoTokens, fee |-> 0, slot0 |-> "undefined",
           liquidity |-> Undef]
PoolMemo(q) ==
    IF ~q.poolData.loaded \/ ~Tokens(q).defined \/ q.fee = 0 THEN NoPool
    ELSE IF q.poolData.slot0 = "undefined" \/ q.poolData.liquidity = Undef THEN NoPool
    ELSE IF q.poolData.slot0 = "inconsistent" THEN NoPool
    ELSE [defined |-> TRUE, tokens |-> Tokens(q), fee |-> q.fee,
          slot0 |-> q.poolData.slot0, liquidity |-> q.poolData.liquidity]

\* The error the effect of the next render stores.
PoolDataError(q) == q.tokens /\ q.fee # 0 /\ q.poolAddress = "zero"

\* What a render of usePoolData returns after the read or change named name.
PoolDataResult(name, q) ==
    /\ poolQ' = q
    /\ poolError' = PoolDataError(q)
    /\ ev' = Ev(name, [tokens |-> Tokens(q), pool |-> PoolMemo(q)])
    /\ UNCHANGED <<swapVars, liquidityVars>>
    /\ UNCHANGED <<agentAddress, now, userAddress, step, error, currentParams, reads,
                   nextSid, last, hist>>

\* The component passes other params: the reads have other keys and no data.
SetPoolParams(tokens, fee) ==
    /\ <<tokens, fee>> # <<poolQ.tokens, poolQ.fee>>
    /\ PoolDataResult("params", [NoPoolQueries EXCEPT !.tokens = tokens, !.fee = fee])

\* The token metadata read ends, or is fetched again.  Without tokens the
\* getPool read has no arguments and no data.
TokenDataLoaded(data) ==
    /\ poolQ.tokens
    /\ data # poolQ.tokenData
    /\ LET q == [poolQ EXCEPT !.tokenData = data]
       IN  PoolDataResult("tokenData",
               IF Tokens(q).defined THEN q
               ELSE [q EXCEPT !.poolAddress = "undefined", !.poolData = NoPoolData])

PoolAddressLoaded(address) ==
    /\ PoolAddressEnabled(poolQ)
    /\ poolQ.poolAddress = "undefined"
    /\ PoolDataResult("poolAddress", [poolQ EXCEPT !.poolAddress = address])

PoolStateLoaded(data) ==
    /\ PoolStateEnabled(poolQ)
    /\ data # poolQ.poolData
    /\ PoolDataResult("poolData", [poolQ EXCEPT !.poolData = data])

InitPool ==
    /\ agentAddress = TRUE
    /\ now = 0
    /\ userAddress = TRUE
    /\ step = "idle"
    /\ error = "null"
    /\ currentParams = NoParams
    /\ poolQ = NoPoolQueries
    /\ poolError = FALSE
    /\ quoteResult = NoQuote
    /\ reads = {}
    /\ approve = IdleMutation
    /\ swap = IdleMutation
    /\ balancesQ = NoBalancesQ
    /\ approve0 = IdleMutation
    /\ approve1 = IdleMutation
    /\ addLiquidity = IdleLiquidityMutation
    /\ nextSid = 1
    /\ last = View
    /\ hist = NoHist
    /\ ev = Ev("mount", [tokens |-> NoTokens, pool |-> NoPool])

NextPool ==
    \/ \E tokens \in BOOLEAN, fee \in Fees : SetPoolParams(tokens, fee)
    \/ \E data \in TokenDataResults : TokenDataLoaded(data)
    \/ \E address \in {"zero", "pool"} : PoolAddressLoaded(address)
    \/ \E data \in PoolDataResults : PoolStateLoaded(data)

SpecPool == InitPool /\ [][NextPool]_vars

\* ------------------------------------------------- sessions under a clock
\* One session of either hook while the clock advances in steps of half a
\* second.  Which hook is mounted shows in the shape of currentParams.
MaxTicks == 4
SwapMounted == "amountIn" \in DOMAIN currentParams

Tick ==
    /\ now < MaxTicks * 500
    /\ now' = now + 500
    /\ UNCHANGED <<swapVars, liquidityVars>>
    /\ UNCHANGED <<agentAddress, userAddress, step, error, currentParams, poolQ,
                   poolError, reads, nextSid, last, ev, hist>>

InitDeadline ==
    /\ InitSwap \/ InitLiquidity
    /\ agentAddress /\ userAddress

NextDeadline ==
    \/ Tick
    \/ PoolLoaded("ready")
    \/ SwapMounted /\ RenderSwap
    \/ SwapMounted /\ nextSid = 1 /\ \E a \in SwapAmounts \ {0} : CallSwap(a, FALSE)
    \/ SwapMounted /\ \E c \in reads, d \in AllowanceValues : AllowanceResult(c, d)
    \/ SwapMounted /\ ApproveSigned
    \/ SwapMounted /\ ApproveReceipt(TRUE)
    \/ SwapMounted /\ SwapSigned
    \/ SwapMounted /\ \E ok \in BOOLEAN : SwapReceipt(ok)
    \/ ~SwapMounted /\ RenderLiquidity
    \/ ~SwapMounted /\ nextSid = 1
          /\ CallAddLiquidity([tokens |-> TRUE, amountA |-> 1, amountB |-> 1])
    \/ ~SwapMounted /\ BalancesLoaded(<<ParseUnits(1), ParseUnits(1)>>)
    \/ ~SwapMounted /\ \E c \in reads, d0 \in LiquidityAllowances, d1 \in LiquidityAllowances :
                           AllowancesResult(c, d0, d1)
    \/ ~SwapMounted /\ \E c \in reads, d1 \in LiquidityAllowances : Allowance1Result(c, d1)
    \/ ~SwapMounted /\ \E w \in WriteHooks : LiquiditySigned(w)
    \/ ~SwapMounted /\ \E w \in WriteHooks : LiquidityReceipt(w, TRUE)

SpecDeadline == InitDeadline /\ [][NextDeadline]_vars

\* ------------------------------------- one session while the pool moves
\* A refetch of slot0 and liquidity returns other values: usePoolData builds
\* another Pool object, at the other price.
PoolRefreshed ==
    /\ Quiescent
    /\ PoolOf(View)
    /\ ev' = Ev("poolRefreshed", 0)
    /\ poolQ' = IF poolQ = "ready" THEN "moved" ELSE "ready"
    /\ UNCHANGED <<swapVars, liquidityVars>>
    /\ UNCHANGED <<agentAddress, now, userAddress, step, error, currentParams, poolError,
                   reads, nextSid, last, hist>>

InitRefresh ==
    /\ InitLiquidity
    /\ agentAddress /\ userAddress

\* One session with valid amounts and sufficient balances.
NextRefresh ==
    \/ RenderLiquidity
    \/ nextSid = 1 /\ CallAddLiquidity([tokens |-> TRUE, amountA |-> 1, amountB |-> 1])
    \/ PoolLoaded("ready")
    \/ PoolRefreshed
    \/ BalancesLoaded(<<ParseUnits(1), ParseUnits(1)>>)
    \/ \E c \in reads, d0 \in LiquidityAllowances, d1 \in LiquidityAllowances :
          AllowancesResult(c, d0, d1)
    \/ \E c \in reads, d1 \in LiquidityAllowances : Allowance1Result(c, d1)
    \/ \E w \in WriteHooks : LiquiditySigned(w)
    \/ \E w \in WriteHooks : LiquidityReceipt(w, TRUE)

SpecRefresh == InitRefresh /\ [][NextRefresh]_vars

\* --------------------------------- one session whose transactions can fail
\* One session with valid amounts and sufficient balances; the wallet or the
\* node can refuse each submission.  React runs a render that is pending.
NextRevert ==
    \/ RenderLiquidity
    \/ nextSid = 1 /\ CallAddLiquidity([tokens |-> TRUE, amountA |-> 1, amountB |-> 1])
    \/ PoolLoaded("ready")
    \/ BalancesLoaded(<<ParseUnits(1), ParseUnits(1)>>)
    \/ \E c \in reads, d0 \in LiquidityAllowances, d1 \in LiquidityAllowances :
          AllowancesResult(c, d0, d1)
    \/ \E c \in reads, d1 \in LiquidityAllowances : Allowance1Result(c, d1)
    \/ \E w \in WriteHooks : LiquiditySigned(w)
    \/ \E w \in WriteHooks, m \in WalletErrors : LiquidityFailed(w, m)
    \/ \E w \in WriteHooks : LiquidityReceipt(w, TRUE)

FairSpecRevert == InitRefresh /\ [][NextRevert]_vars /\ WF_vars(RenderLiquidity)

\* ===================================================================
\* Properties of useCallSwap (checked under SpecSwap)
\* ===================================================================
InFlightSwap == {"quoting", "checking-approval", "approving", "swapping"}

AllowedSwapStep(s, t, e) ==
    \/ s = "idle" /\ t = "quoting"
    \/ s = "quoting" /\ t = "checking-approval"
    \/ s = "checking-approval" /\ t \in {"approving", "swapping"}
    \/ s = "approving" /\ t = "swapping"
    \/ s = "swapping" /\ t = "complete"
    \/ s \notin {"complete", "error"} /\ t = "error"
    \/ t = "idle" /\ e = "resetSwap"
    \/ s \in {"complete", "error"} /\ t = "quoting" /\ e = "callSwap"

\* C1: every change of step in useCallSwap is one of the declared transitions:
\* forward along idle, quoting, checking-approval, approving, swapping,
\* complete (approving may be skipped), a non-terminal step to error, any step
\* to idle by resetSwap, complete/error to quoting by callSwap.
C1_DeclaredSwapTransitions ==
    [][step' # step => AllowedSwapStep(step, step', ev'.name)]_vars

\* C3: a callSwap made while a session is in flight neither replaces the
\* params of that session nor changes its step.
C3_CallWhileInFlightRejected ==
    [][ev'.name = "callSwap" /\ step \in InFlightSwap
          => currentParams' = currentParams /\ step' = step]_vars

\* C4: every approval is approve(agent, amountIn of its session) on tokenIn,
\* and in a session whose allowance read was below amountIn the swap is
\* submitted only after that session's approval was seen confirmed.
C4_SwapAfterOwnApproval ==
    /\ approve.status # "idle" =>
          /\ approve.token = "tokenIn" /\ approve.spender = "agent"
          /\ approve.sid = currentParams.sid => approve.amount = currentParams.amountIn
    /\ hist.read = "low" => hist.swapped # "before"

\* C5: in a session whose allowance read was at least amountIn, step never
\* passes through approving and no approval is submitted.
C5_NoApprovalWhenAllowed ==
    currentParams # NoParams /\ hist.read = "ok"
        => ~hist.sawApproving /\ approve.sid # currentParams.sid

\* C6: the minimum output of a submitted swap is the one the quote gives for
\* the amountIn of that same swap.
C6_MinimumOutputOfOwnQuote ==
    swap.status # "idle" => swap.amountOutMinimum = CalculateQuote(swap.amount).amountOutMinimum

\* C7: resetSwap sets step idle and clears error and params, and a receipt that
\* arrives afterwards leaves step idle.
C7_ResetStopsReacting ==
    [][/\ ev'.name = "resetSwap" =>
              step' = "idle" /\ error' = "null" /\ currentParams' = NoParams
       /\ (step = "idle" /\ ev.name \in {"approveReceipt", "swapReceipt"}
              /\ ev'.name = "render") => step' = "idle"]_vars

\* C8: callSwap without an agent address or a connected user sets step error
\* with a message, keeps the stored params and starts no read and no
\* transaction (nor does the render that follows); otherwise it stores the
\* params, clears error and sets step quoting.
C8_CallSwapGuard ==
    [][/\ ev'.name = "callSwap" =>
            IF ~agentAddress \/ ~userAddress
            THEN /\ step' = "error" /\ error' # "null"
                 /\ currentParams' = currentParams
                 /\ reads' = reads /\ approve' = approve /\ swap' = swap /\ poolQ' = poolQ
            ELSE /\ currentParams'.amountIn = ev'.arg /\ currentParams'.sid = nextSid
                 /\ error' = "null" /\ step' = "quoting"
       /\ (ev.name = "callSwap" /\ error = "Please connect your wallet" /\ ev'.name = "render")
            => reads' = reads /\ approve' = approve /\ swap' = swap /\ poolQ' = poolQ]_vars

C8_Witness ==
    /\ ev.name = "callSwap" /\ step = "error" /\ error = "Please connect your wallet"
    /\ currentParams # NoParams /\ ~userAddress

\* C9: once loading has finished, a session whose quote has no result does not
\* stay in quoting (it is moved to error).
C9_QuoteFailureIsError ==
    (Quiescent /\ ~IsLoading(currentParams, poolQ) /\ ~quoteResult.defined)
        => step # "quoting"

\* C10: when the receipt of the swap reports failure the session goes to
\* error and swapTxHash stays set.
C10_FailedReceiptIsError ==
    [][(ev.name = "swapReceipt" /\ swap.receipt = "error" /\ step = "swapping"
            /\ ev'.name = "render")
          => step' = "error" /\ TxHash(swap') # <<>>]_vars

\* C11: when the allowance read of checking-approval returns no value, the
\* session goes to error and the continuation submits neither an approval
\* nor a swap.
C11_FailedAllowanceReadIsError ==
    [][ev'.name = "allowance" /\ ev'.arg = Undef
          => step' = "error" /\ approve' = approve /\ swap' = swap]_vars

\* C12: the render that sees a new error of the approve or swap submission
\* sets step error and stores the fixed rejection message when that error's
\* message contains 'User rejected', and the error's own message otherwise.
NewTxError ==
    IF approve.message # last.approve.message THEN approve.message
    ELSE IF swap.message # last.swap.message THEN swap.message
    ELSE ""

C12_TxErrorForcesError ==
    [][ev'.name = "render" /\ NewTxError # ""
          => /\ step' = "error"
             /\ error' = IF NewTxError = "User rejected the request."
                         THEN "Transaction was rejected." ELSE NewTxError]_vars

\* C19: in a render of useSwapQuote whose amountIn is zero or missing, or
\* whose pool is not available, the hook returns no quote (estimatedAmountOut
\* and amountOutMinimum undefined), and a quote published before is cleared.
C19_NoQuoteWithoutInputs ==
    [][(ev'.name = "render"
          /\ (currentParams.sid = 0 \/ currentParams.amountIn = 0 \/ ~PoolOf(View)))
          => ~quoteResult.defined /\ ~quoteResult'.defined]_vars

\* C24: when the connected address becomes undefined while the session is in
\* an in-flight step, the render that sees it forces step to error.
C24_DisconnectForcesError ==
    [][(ev.name = "accountChanged" /\ ~userAddress /\ step \in InFlightSwap
            /\ ev'.name = "render")
          => step' = "error"]_vars

\* C25: while the factory lookup of the session's pair has resolved to the
\* zero address, no approval and no swap is submitted, and once no render is
\* pending the session is not in an in-flight step (it has ended in error).
C25_PoolNotFoundEndsInError ==
    [][(poolQ = "notfound" /\ currentParams.sid # 0)
          => /\ approve' = approve /\ swap' = swap
             /\ Quiescent => step \notin InFlightSwap]_vars

\* C26: once the token metadata read of the session's pair has failed and no
\* render is pending, the session is in error with a message.
C26_MetadataFailureIsError ==
    (Quiescent /\ poolQ = "failed" /\ currentParams.sid # 0)
        => step = "error" /\ error # "null"

\* C29: the approve-or-swap branch runs on the result of an allowance read
\* that the current session started, while that session is in
\* checking-approval.
C29_BranchOnOwnRead ==
    [][ev'.name = "allowance"
          => \A c \in reads \ reads' :
                c.sid = currentParams.sid /\ step = "checking-approval"]_vars

\* C30: a session whose quote is known (whatever its minimum output, zero
\* included) does not stay in quoting once no render is pending.
C30_KnownQuoteLeavesQuoting ==
    (/\ Quiescent /\ agentAddress
     /\ quoteResult.defined /\ quoteResult = QuoteFor(currentParams, poolQ))
        => step # "quoting"

\* React runs a render that is pending.
FairSpecSwap == SpecSwap /\ WF_vars(RenderSwap)

\* C31: when the swap of the current session is confirmed while step is
\* swapping, step eventually becomes complete; and a step that is complete
\* on the confirmed swap of the current session stays complete until
\* resetSwap or callSwap.
SwapConfirmed == IsSuccess(swap) /\ swap.sid = currentParams.sid
C31_ConfirmedSwapCompletes ==
    /\ (SwapConfirmed /\ step = "swapping") ~> (step = "complete")
    /\ [][(SwapConfirmed /\ step = "complete" /\ step' # "complete")
             => ev'.name \in {"resetSwap", "callSwap"}]_vars

\* C32: whenever step is complete, the swap that was submitted for the
\* params of the current session has been confirmed.
C32_CompleteOnOwnSwap ==
    step = "complete"
        => /\ IsSuccess(swap)
           /\ swap.sid = currentParams.sid /\ swap.amount = currentParams.amountIn

\* C33: after resetSwap (currentParams is null) no approval and no swap is
\* submitted by any step other than a new callSwap.
C33_NoSubmissionAfterReset ==
    [][(currentParams = NoParams /\ ev'.name # "callSwap")
          => approve' = approve /\ swap' = swap]_vars

\* C36: the error message is set exactly when step is error.
C36_ErrorIffStepError == (error # "null") <=> (step = "error")

\* C39: in the render that sees the swap submission fail, the stored message
\* is the one derived from the error of that swap.
C39_MessageOfFailingSwap ==
    [][(ev'.name = "render" /\ swap.message # "" /\ swap.message # last.swap.message)
          => error' = IF swap.message = "User rejected the request."
                      THEN "Transaction was rejected." ELSE swap.message]_vars

\* C40: in every render of a session in flight the returned isPending is
\* true: for useCallSwap when step is quoting, checking-approval, approving
\* or swapping, for useAddLiquidity when step is checking-balances,
\* checking-approvals, approving-token0, approving-token1 or adding-liquidity.
InFlightSwapSteps == {"quoting", "checking-approval", "approving", "swapping"}
InFlightLiquiditySteps ==
    {"checking-balances", "checking-approvals", "approving-token0", "approving-token1",
     "adding-liquidity"}
C40_PendingWhileInFlight ==
    Quiescent =>
        IF SwapMounted
        THEN step \in InFlightSwapSteps => IsPending(View)
        ELSE step \in InFlightLiquiditySteps => IsPendingLiquidity(View)

\* ===================================================================
\* Properties of useAddLiquidity (checked under SpecLiquidity)
\* ===================================================================
AllowedLiquidityStep(s, t, e) ==
    \/ s = "idle" /\ t = "checking-balances"
    \/ s = "checking-balances" /\ t = "checking-approvals"
    \/ s = "checking-approvals" /\ t \in {"approving-token0", "approving-token1", "adding-liquidity"}
    \/ s = "approving-token0" /\ t \in {"approving-token1", "adding-liquidity"}
    \/ s = "approving-token1" /\ t = "adding-liquidity"
    \/ s = "adding-liquidity" /\ t = "complete"
    \/ t = "error"
    \/ t = "idle" /\ e = "resetAddLiquidity"
    \/ s \in {"complete", "error"} /\ t = "checking-balances" /\ e = "callAddLiquidity"

\* C2: every change of step in useAddLiquidity follows idle, checking-balances,
\* checking-approvals, approving-token0, approving-token1, adding-liquidity,
\* complete with only the already-approved skips, or goes to error, or to idle
\* by resetAddLiquidity, or from complete/error to checking-balances by
\* callAddLiquidity; no asynchronous event moves step backward.
C2_DeclaredLiquidityTransitions ==
    [][step' # step => AllowedLiquidityStep(step, step', ev'.name)]_vars

\* C13: callAddLiquidity without an agent address or a connected wallet,
\* without both token addresses, or with an amount that is not a number
\* greater than 0, sets step error with a message, keeps the stored params and
\* starts no read and no transaction (nor does the render that follows);
\* otherwise it stores the params, clears error and sets step
\* checking-balances.
IsAmount(amount) == amount >= 0

ValidLiquidityInput(p) ==
    /\ p.tokens
    /\ IsAmount(p.amountA) /\ p.amountA > 0
    /\ IsAmount(p.amountB) /\ p.amountB > 0

C13_CallAddLiquidityValidates ==
    [][/\ ev'.name = "callAddLiquidity" =>
            IF agentAddress /\ userAddress /\ ValidLiquidityInput(ev'.arg)
            THEN /\ currentParams'.sid = nextSid
                 /\ currentParams'.amountA = ev'.arg.amountA
                 /\ currentParams'.amountB = ev'.arg.amountB
                 /\ error' = "null" /\ step' = "checking-balances"
            ELSE /\ step' = "error" /\ error' # "null"
                 /\ currentParams' = currentParams
                 /\ reads' = reads /\ poolQ' = poolQ
                 /\ UNCHANGED liquidityVars
       /\ (ev.name = "callAddLiquidity" /\ step = "error" /\ ev'.name = "render")
            => reads' = reads /\ poolQ' = poolQ /\ UNCHANGED liquidityVars]_vars

\* C14: when the balance effect sees a balance below the requested amount
\* (and neither the pool read nor a submission has failed) it sets step error
\* with the insufficient-balance message, and while the session is in that
\* error none of its transactions is submitted; when it sees both balances
\* sufficient in checking-balances, step becomes checking-approvals.
BalanceEffectRuns ==
    /\ BalanceDeps(View) # BalanceDeps(last)
    /\ Balances(View) # <<>> /\ currentParams.sid # 0
    /\ Balances(View)[1] # Undef /\ Balances(View)[2] # Undef

InsufficientBalance ==
    \/ Balances(View)[1] < ParseUnits(ParseFloat(currentParams.amountA))
    \/ Balances(View)[2] < ParseUnits(ParseFloat(currentParams.amountB))

NoOtherFailure ==
    ~poolError /\ approve0.message = "" /\ approve1.message = "" /\ addLiquidity.message = ""

SubmittedInSession(w) ==
    Hook(w)' # Hook(w) /\ Hook(w)'.status = "pending" /\ Hook(w)'.sid = currentParams.sid

C14_InsufficientBalanceStops ==
    [][/\ (ev'.name = "render" /\ BalanceEffectRuns /\ InsufficientBalance
              /\ NoOtherFailure)
            => step' = "error" /\ error' = "Insufficient balance"
       /\ (ev'.name = "render" /\ BalanceEffectRuns /\ ~InsufficientBalance
              /\ NoOtherFailure /\ step = "checking-balances")
            => step' = "checking-approvals"
       /\ (step = "error" /\ error = "Insufficient balance")
            => \A w \in WriteHooks : ~SubmittedInSession(w)]_vars

\* The continuation of the session that is in checking-approvals, and what
\* the session submits in a step.
OwnDecision(name) ==
    /\ ev'.name = name
    /\ step = "checking-approvals"
    /\ ev'.arg.c.sid = currentParams.sid

Approves(w, token, amount) ==
    /\ Hook(w)' = WriteContract(currentParams.sid, token, "agent", amount, 0)
    /\ \A x \in WriteHooks \ {w} : Hook(x)' = Hook(x)

AddsLiquidity(amounts) ==
    /\ addLiquidity' = WriteAddLiquidity(currentParams.sid, amounts.amount0, amounts.amount1)
    /\ approve0' = approve0 /\ approve1' = approve1

\* C15 (as the code has it): in checking-approvals, with both allowances
\* read, allowance0 < amount0 gives approving-token0 and approve of token0;
\* else allowance1 < amount1 makes the orchestrator read allowance1 once more,
\* submitting nothing yet, and that second value gives approving-token1 and
\* approve of token1 (no token0 approval) when it is below amount1 and
\* adding-liquidity with no approval otherwise; else adding-liquidity
\* directly with no approval.
C15_ApprovalDecisionOrder ==
    [][/\ (OwnDecision("allowances") /\ ev'.arg.data0 # Undef /\ ev'.arg.data1 # Undef) =>
            LET a == ev'.arg.c.amounts
            IN  IF ev'.arg.data0 < a.amount0
                THEN step' = "approving-token0" /\ Approves("approve0", "token0", a.amount0)
                ELSE IF ev'.arg.data1 < a.amount1
                THEN /\ step' = step /\ UNCHANGED <<approve0, approve1, addLiquidity>>
                     /\ [ev'.arg.c EXCEPT !.kind = "token1"] \in reads'
                ELSE step' = "adding-liquidity" /\ AddsLiquidity(a)
       /\ (OwnDecision("allowance1") /\ ev'.arg.data1 # Undef) =>
            LET a == ev'.arg.c.amounts
            IN  IF ev'.arg.data1 < a.amount1
                THEN step' = "approving-token1" /\ Approves("approve1", "token1", a.amount1)
                ELSE step' = "adding-liquidity" /\ AddsLiquidity(a)]_vars

\* C15 witness: token0 needed no approval and the session is in
\* approving-token1 with the approval of token1 just submitted.
C15_Witness ==
    /\ ev.name = "allowance1" /\ step = "approving-token1"
    /\ approve1.status = "pending" /\ approve1.sid = currentParams.sid
    /\ approve0.sid # currentParams.sid

\* C15 (as stated): the decision is taken on the two allowances read in
\* checking-approvals, so once allowance0 sufficed and allowance1 did not the
\* session goes to approving-token1.
C15_DecisionOnFirstRead ==
    [][OwnDecision("allowance1")
          => step' = "approving-token1"
             /\ Approves("approve1", "token1", ev'.arg.c.amounts.amount1)]_vars

\* C16: the render that sees the session's token0 approval confirmed in
\* approving-token0 starts a new read of token1's allowance and submits
\* nothing; that read then gives approving-token1 with approve of token1, or
\* adding-liquidity with the add-liquidity transaction; and add-liquidity is
\* submitted only when every approval of its session held by the write hooks
\* has been seen confirmed.
C16_AddAfterApprovalsConfirmed ==
    [][/\ (ev'.name = "render" /\ IsSuccess(approve0) /\ step = "approving-token0"
              /\ approve0.sid = currentParams.sid
              /\ Approval0Deps(View) # Approval0Deps(last))
            => /\ LiquidityClosure(View, "token1") \in reads'
               /\ UNCHANGED <<approve0, approve1, addLiquidity>>
       /\ (ev'.name = "allowance1" /\ step = "approving-token0"
              /\ ev'.arg.c.sid = currentParams.sid /\ ev'.arg.data1 # Undef) =>
            LET a == ev'.arg.c.amounts
            IN  IF ev'.arg.data1 < a.amount1
                THEN step' = "approving-token1" /\ Approves("approve1", "token1", a.amount1)
                ELSE step' = "adding-liquidity" /\ AddsLiquidity(a)
       /\ (addLiquidity' # addLiquidity /\ addLiquidity'.status = "pending")
            => \A w \in {"approve0", "approve1"} :
                  Hook(w).sid = addLiquidity'.sid => IsSuccess(Hook(w))]_vars

\* C17: the minimum amounts of a submitted add-liquidity call are the floor
\* of 99.5% of its amounts: floor(amount * 995 / 1000).
C17_MinimumAmountsFloor ==
    addLiquidity.status # "idle" =>
        /\ addLiquidity.amount0Min = (addLiquidity.amount0 * 995) \div 1000
        /\ addLiquidity.amount1Min = (addLiquidity.amount1 * 995) \div 1000

\* ===================================================================
\* Properties of useSwapQuote (checked under SpecQuote)
\* ===================================================================
\* C18: a quote produced for amountIn > 0 has minimum output
\* floor(estimatedAmountOut * (10000 - bps) / 10000), bps being the tolerance
\* in basis points; with 50 bps that is floor(estimatedAmountOut * 9950 /
\* 10000); and the minimum never exceeds the estimate.
C18_MinimumOutputFloor ==
    (ev.name = "calculateQuote" /\ ev.arg.pool /\ ev.arg.amountIn > 0) =>
        LET bps == SlippageFactor(ev.arg.tolerance)
            out == quoteResult.estimatedAmountOut
        IN  /\ quoteResult.defined
            /\ out = (ev.arg.amountIn * ev.arg.price[1]) \div ev.arg.price[2]
            /\ quoteResult.amountOutMinimum * 10000 <= out * (10000 - bps)
            /\ (quoteResult.amountOutMinimum + 1) * 10000 > out * (10000 - bps)
            /\ bps = 50 => quoteResult.amountOutMinimum = (out * 9950) \div 10000
            /\ quoteResult.amountOutMinimum <= out

\* C18 witness: a quote at the default tolerance whose floor is strictly
\* below 99.5% of the estimate.
C18_Witness ==
    /\ ev.name = "calculateQuote" /\ ev.arg.tolerance = 500
    /\ quoteResult.defined /\ quoteResult.estimatedAmountOut = 13
    /\ quoteResult.amountOutMinimum = 12

\* ===================================================================
\* Properties of the token ordering (checked under SpecOrder)
\* ===================================================================
\* C20: for two addresses that differ (case-insensitively), calling with
\* (tokenA = x, amountA = p, tokenB = y, amountB = q) gives the same token0,
\* token1, amount0Desired and amount1Desired as calling with (y, q, x, p);
\* token0's address is below token1's, and each amount follows its token.
C20_OrderIndependent ==
    (ev.name = "orderTokens"
        /\ ToLowerCase(ev.arg.tokenAAddress) # ToLowerCase(ev.arg.tokenBAddress)) =>
        LET a == ev.arg
            r == a.result
        IN  /\ r = DesiredAmounts(a.tokenBAddress, a.amountB, a.tokenAAddress, a.amountA)
            /\ StringLess(ToLowerCase(r.token0), ToLowerCase(r.token1))
            /\ {r.token0, r.token1} = {TokenAddress(a.tokenAAddress), TokenAddress(a.tokenBAddress)}
            /\ r.amount0Desired = IF r.token0 = TokenAddress(a.tokenAAddress)
                                  THEN ParseUnits(a.amountA) ELSE ParseUnits(a.amountB)
            /\ r.amount1Desired = IF r.token1 = TokenAddress(a.tokenAAddress)
                                  THEN ParseUnits(a.amountA) ELSE ParseUnits(a.amountB)

\* C20 witness: the caller's token A has the higher address, written in
\* another case than token B, and became token1 with its amount.
C20_Witness ==
    /\ ev.name = "orderTokens"
    /\ ev.arg.tokenAAddress = <<98, 49>> /\ ev.arg.tokenBAddress = <<65, 66>>
    /\ ev.arg.amountA = 2 /\ ev.arg.amountB = 1
    /\ ev.arg.result.token1 = TokenAddress(ev.arg.tokenAAddress)
    /\ ev.arg.result.amount1Desired = ParseUnits(2)
    /\ ev.arg.result.amount0Desired = ParseUnits(1)

\* ===================================================================
\* Further properties of useAddLiquidity (checked under SpecLiquidity)
\* ===================================================================
\* C21: a callAddLiquidity with valid input made after a session ended in
\* error starts a fresh session: it sets step checking-balances and clears
\* error, and the render that follows does not fall back to error unless the
\* pool of the new session is not found or its balances are insufficient.
C21_RetryStartsFresh ==
    [][/\ (ev'.name = "callAddLiquidity" /\ step = "error"
              /\ agentAddress /\ userAddress /\ ValidLiquidityInput(ev'.arg))
            => step' = "checking-balances" /\ error' = "null"
       /\ (ev.name = "callAddLiquidity" /\ step = "checking-balances"
              /\ ValidLiquidityInput(ev.arg)
              /\ ev'.name = "render" /\ step' = "error")
            => \/ poolError
               \/ BalanceEffectRuns /\ InsufficientBalance]_vars

\* C22: once step is error, step and the error message stay as they are
\* until the caller invokes resetAddLiquidity or callAddLiquidity.
C22_ErrorUntilReset ==
    [][(step = "error" /\ (step' # "error" \/ error' # error))
          => ev'.name \in {"resetAddLiquidity", "callAddLiquidity"}]_vars

\* C23: the wallet is disconnected only by a render whose transaction error
\* (the first of approve0Error, approve1Error, addLiquidityError) has the
\* message 'execution reverted' and in which no pool error is reported; a
\* rejected signature, a validation error, an insufficient balance or a pool
\* error does not disconnect.
FirstTxError ==
    IF approve0.message # "" THEN approve0.message
    ELSE IF approve1.message # "" THEN approve1.message
    ELSE addLiquidity.message

C37_BalanceResultOfOwnSession ==
    [][(ev'.name = "render" /\ BalanceEffectRuns)
          => step = "checking-balances" /\ ev.name = "balancesLoaded"]_vars

\* ===================================================================
\* Properties of usePoolData (checked under SpecPool)
\* ===================================================================
\* C27: usePoolData returns a pool only when both decimals were read as
\* numbers, the fee is set, slot0 is present and liquidity has a value; the
\* tokens it returns carry the decimals that were read, and without them
\* neither tokens nor pool are returned; a missing symbol is replaced by the
\* placeholder TOKEN_A / TOKEN_B and does not keep the pool from being built.
C27_PoolOnlyFromResolvedData ==
    LET data == poolQ.tokenData
        resolved == data.loaded /\ data.aDecimals # Undef /\ data.bDecimals # Undef
    IN  /\ ev.arg.pool.defined
            => /\ resolved /\ poolQ.fee # 0
               /\ poolQ.poolData.loaded
               /\ poolQ.poolData.slot0 # "undefined"
               /\ poolQ.poolData.liquidity \in Nat
               /\ ev.arg.pool.tokens = ev.arg.tokens
        /\ ~resolved => ~ev.arg.tokens.defined /\ ~ev.arg.pool.defined
        /\ ev.arg.tokens.defined
            => /\ ev.arg.tokens.aDecimals = data.aDecimals
               /\ ev.arg.tokens.bDecimals = data.bDecimals
               /\ ev.arg.tokens.aSymbol = (IF data.aSymbol = "" THEN "TOKEN_A" ELSE data.aSymbol)
               /\ ev.arg.tokens.bSymbol = (IF data.bSymbol = "" THEN "TOKEN_B" ELSE data.bSymbol)
        /\ (resolved /\ poolQ.tokens /\ poolQ.fee # 0 /\ poolQ.poolData.loaded
               /\ poolQ.poolData.slot0 = "consistent" /\ poolQ.poolData.liquidity \in Nat)
            => ev.arg.pool.defined

C27_Witness ==
    /\ ev.name = "poolData"
    /\ ev.arg.pool.defined
    /\ poolQ.tokenData.aSymbol = "" /\ ev.arg.pool.tokens.aSymbol = "TOKEN_A"
    /\ ev.arg.pool.tokens.aDecimals = 6

\* ===================================================================
\* Properties of the deadline (checked under SpecDeadline)
\* ===================================================================
\* C28: a swap or add-liquidity transaction is submitted with the deadline
\* floor(clock / 1000) + 600, the clock being read in the step that submits.
C28_DeadlineAtSubmission ==
    [][/\ (swap' # swap /\ swap'.status = "pending")
            => swap'.deadline = (now \div 1000) + 600
       /\ (addLiquidity' # addLiquidity /\ addLiquidity'.status = "pending")
            => addLiquidity'.deadline = (now \div 1000) + 600]_vars

\* A swap submitted two seconds after the mount, behind an approval.
C28_Witness ==
    /\ swap.status = "pending" /\ swap.deadline = 602
    /\ IsSuccess(approve) /\ approve.sid = swap.sid

\* ===================================================================
\* Properties of one liquidity session (checked under SpecRefresh)
\* ===================================================================
\* C34: within the session each write hook submits at most one transaction:
\* no submission replaces an earlier submission of the same session in the
\* same hook (approve of token0, approve of token1, add-liquidity).
C34_OneSubmissionPerHook ==
    [][\A w \in WriteHooks :
          (Hook(w)' # Hook(w) /\ Hook(w)'.status = "pending")
              => Hook(w).sid # Hook(w)'.sid]_vars

\* ===================================================================
\* Properties of a failing liquidity session (checked under FairSpecRevert)
\* ===================================================================
\* C35: after a transaction error the effects of useAddLiquidity settle: a
\* state is reached in which no render is pending (step and error have
\* stopped changing).
C35_EffectsSettle == (FirstTxError # "") ~> Quiescent

\* C38: the amount of each token passed to the add-liquidity call does not
\* exceed the amount of the approval of that token that was confirmed
\* earlier in the session.
C38_AmountsWithinApproval ==
    [][(addLiquidity' # addLiquidity /\ addLiquidity'.status = "pending")
          => /\ (IsSuccess(approve0) /\ approve0.sid = addLiquidity'.sid)
                   => addLiquidity'.amount0 <= approve0.amount
             /\ (IsSuccess(approve1) /\ approve1.sid = addLiquidity'.sid)
                   => addLiquidity'.amount1 <= approve1.amount]_vars

====
